---- MODULE Spec2Model ----
(***************************************************************************)
(* ZEPTO-8 code fixer: the PICO-8 dialect grammar (lua53-parse.h, a PEGTL  *)
(* grammar) and code_fixer (code-fixer.cpp), which parses a cartridge with *)
(* that grammar, records where `!=` and compound assignments occur, and    *)
(* rewrites them to standard Lua.                                          *)
(*                                                                         *)
(* Text is a sequence of one-character strings; byte offsets are 0-based   *)
(* as in the code, so the byte at offset p of text s is s[p + 1].          *)
(***************************************************************************)
EXTENDS Integers, Sequences, FiniteSets, TLC

\* ------------------------------------------------------------------------
\* Character classes used by the grammar (pegtl::ascii)
\* ------------------------------------------------------------------------

lower == {"a","b","c","d","e","f","g","h","i","j","k","l","m",
          "n","o","p","q","r","s","t","u","v","w","x","y","z"}

upper == {"A","B","C","D","E","F","G","H","I","J","K","L","M",
          "N","O","P","Q","R","S","T","U","V","W","X","Y","Z"}

digitChars == {"0","1","2","3","4","5","6","7","8","9"}

xdigitChars == digitChars \cup {"a","b","c","d","e","f","A","B","C","D","E","F"}

\* "" is the vertical tab.
spaceChars == {" ", "\n", "\r", "\t", "", "\f"}

\* ------------------------------------------------------------------------
\* PEGTL rule combinators, as data: a rule is a record tagged by t.  A
\* combinator over several rules R... stands for the one over seq< R... >.
\* ------------------------------------------------------------------------

seq(rs) == [t |-> "seq", rs |-> rs]
group(rs) == IF Len(rs) = 1 THEN rs[1] ELSE seq(rs)
any == [t |-> "any"]
one(cs) == [t |-> "one", cs |-> cs]
not_one(cs) == [t |-> "not_one", cs |-> cs]
string(s) == [t |-> "string", s |-> s]
two(c) == string(<<c, c>>)
sor(rs) == [t |-> "sor", rs |-> rs]
star(rs) == [t |-> "star", r |-> group(rs)]
plus(rs) == seq(rs \o <<star(rs)>>)
opt(rs) == [t |-> "opt", r |-> group(rs)]
at(rs) == [t |-> "at", r |-> group(rs)]
not_at(rs) == [t |-> "not_at", r |-> group(rs)]
must(rs) == [t |-> "must", rs |-> rs]
if_must(rs) == seq(<<Head(rs), must(Tail(rs))>>)
until(c, rs) == [t |-> "until", c |-> c, r |-> IF rs = <<>> THEN any ELSE group(rs)]
disable(rs) == [t |-> "disable", r |-> group(rs)]
rep_opt(n, rs) == [t |-> "rep_opt", n |-> n, r |-> group(rs)]
raw_string == [t |-> "raw_string"]
ref(n) == [t |-> "ref", n |-> n]
eof == [t |-> "eof"]
eolf == [t |-> "eolf"]

pad(r, s) == seq(<<star(<<s>>), r, star(<<s>>)>>)
pad_opt(r, s) == seq(<<star(<<s>>), opt(<<r, star(<<s>>)>>)>>)
list(r, s, p) == seq(<<r, star(<<pad(s, p), r>>)>>)
list_must(r, s, p) == seq(<<r, star(<<if_must(<<pad(s, p), r>>)>>)>>)
list_tail(r, s, p) == seq(<<list(r, s, p), opt(<<star(<<p>>), s>>)>>)

space == one(spaceChars)
digit == one(digitChars)
xdigit == one(xdigitChars)
identifier_first == one(lower \cup upper \cup {"_"})
identifier_other == one(lower \cup upper \cup digitChars \cup {"_"})
identifier == seq(<<identifier_first, star(<<identifier_other>>)>>)

\* ------------------------------------------------------------------------
\* The grammar (lua53-parse.h, namespace lua53).  A rule that carries an
\* analysis action, that is recursive, or whose matches are looked at by
\* the properties below is used through ref("name") and found by Rule.
\* ------------------------------------------------------------------------

short_comment == until(eolf, <<>>)
long_string == raw_string
comment == disable(<<two("-"), sor(<<long_string, short_comment>>)>>)

sep == sor(<<space, ref("comment")>>)
seps == star(<<sep>>)

str_keyword == sor(<<string(<<"a","n","d">>),
                    string(<<"b","r","e","a","k">>),
                    string(<<"d","o">>),
                    string(<<"e","l","s","e","i","f">>),
                    string(<<"e","l","s","e">>),
                    string(<<"e","n","d">>),
                    string(<<"f","a","l","s","e">>),
                    string(<<"f","o","r">>),
                    string(<<"f","u","n","c","t","i","o","n">>),
                    string(<<"g","o","t","o">>),
                    string(<<"i","f">>),
                    string(<<"i","n">>),
                    string(<<"l","o","c","a","l">>),
                    string(<<"n","i","l">>),
                    string(<<"n","o","t">>),
                    string(<<"r","e","p","e","a","t">>),
                    string(<<"r","e","t","u","r","n">>),
                    string(<<"t","h","e","n">>),
                    string(<<"t","r","u","e">>),
                    string(<<"u","n","t","i","l">>),
                    string(<<"w","h","i","l","e">>)>>)

key(Key) == seq(<<Key, not_at(<<identifier_other>>)>>)

key_and == key(string(<<"a","n","d">>))
key_break == key(string(<<"b","r","e","a","k">>))
key_do == key(string(<<"d","o">>))
key_else == key(string(<<"e","l","s","e">>))
key_elseif == key(string(<<"e","l","s","e","i","f">>))
key_end == key(string(<<"e","n","d">>))
key_false == key(string(<<"f","a","l","s","e">>))
key_for == key(string(<<"f","o","r">>))
key_function == key(string(<<"f","u","n","c","t","i","o","n">>))
key_goto == key(string(<<"g","o","t","o">>))
key_if == key(string(<<"i","f">>))
key_in == key(string(<<"i","n">>))
key_local == key(string(<<"l","o","c","a","l">>))
key_nil == key(string(<<"n","i","l">>))
key_not == key(string(<<"n","o","t">>))
key_or == key(string(<<"o","r">>))
key_repeat == key(string(<<"r","e","p","e","a","t">>))
key_return == key(string(<<"r","e","t","u","r","n">>))
key_then == key(string(<<"t","h","e","n">>))
key_true == key(string(<<"t","r","u","e">>))
key_until == key(string(<<"u","n","t","i","l">>))
key_while == key(string(<<"w","h","i","l","e">>))

keyword == key(str_keyword)

three_dots == string(<<".", ".", ".">>)

name == seq(<<not_at(<<keyword>>), identifier>>)

single == one({"a", "b", "f", "n", "r", "t", "v", "\\", "\"", "'", "0", "\n"})
spaces == seq(<<one({"z"}), star(<<space>>)>>)
hexbyte == if_must(<<one({"x"}), xdigit, xdigit>>)
decbyte == if_must(<<digit, rep_opt(2, <<digit>>)>>)
unichar == if_must(<<one({"u"}), one({"{"}), plus(<<xdigit>>), one({"}"})>>)
escaped == if_must(<<one({"\\"}), sor(<<hexbyte, decbyte, unichar, single, spaces>>)>>)
regular == not_one({"\r", "\n"})
character == sor(<<escaped, regular>>)

short_string(Q) == if_must(<<one({Q}), until(one({Q}), <<character>>)>>)
literal_string == sor(<<short_string("\""), short_string("'"), long_string>>)

exponent(E) == opt(<<if_must(<<E, opt(<<one({"+", "-"})>>), plus(<<digit>>)>>)>>)

numeral_three(D, E) == seq(<<if_must(<<one({"."}), plus(<<D>>)>>), exponent(E)>>)
numeral_two(D, E) == seq(<<plus(<<D>>), opt(<<one({"."}), star(<<D>>)>>), exponent(E)>>)
numeral_one(D, E) == sor(<<numeral_two(D, E), numeral_three(D, E)>>)

decimal == numeral_one(digit, one({"e", "E"}))
hexadecimal == if_must(<<seq(<<one({"0"}), one({"x", "X"})>>), numeral_one(xdigit, one({"p", "P"}))>>)
numeral == sor(<<hexadecimal, decimal>>)

label_statement == if_must(<<two(":"), seps, name, seps, two(":")>>)
goto_statement == if_must(<<key_goto, seps, name>>)

name_list == list(name, one({","}), sep)
name_list_must == list_must(name, one({","}), sep)
expr_list_must == list_must(ref("expression"), one({","}), sep)

statement_return == seq(<<pad_opt(expr_list_must, sep), opt(<<one({";"}), seps>>)>>)

statement_list(E) == seq(<<seps, until(sor(<<E, if_must(<<key_return, statement_return, E>>)>>), <<ref("statement"), seps>>)>>)

table_field_one == if_must(<<one({"["}), seps, ref("expression"), seps, one({"]"}), seps, one({"="}), seps, ref("expression")>>)
table_field_two == if_must(<<seq(<<name, seps, one({"="})>>), seps, ref("expression")>>)
table_field == sor(<<table_field_one, table_field_two, ref("expression")>>)
table_field_list == list_tail(table_field, one({",", ";"}), sep)
table_constructor == if_must(<<one({"{"}), pad_opt(table_field_list, sep), one({"}"})>>)

parameter_list_one == seq(<<name_list, opt(<<if_must(<<pad(one({","}), sep), three_dots>>)>>)>>)
parameter_list == sor(<<three_dots, parameter_list_one>>)

function_body == seq(<<one({"("}), pad_opt(parameter_list, sep), one({")"}), seps, statement_list(key_end)>>)
function_literal == if_must(<<key_function, seps, function_body>>)

bracket_expr == if_must(<<one({"("}), seps, ref("expression"), seps, one({")"})>>)

function_args_one == if_must(<<one({"("}), pad_opt(expr_list_must, sep), one({")"})>>)
function_args == sor(<<function_args_one, table_constructor, ref("literal_string")>>)

variable_tail_one == if_must(<<one({"["}), seps, ref("expression"), seps, one({"]"})>>)
variable_tail_two == if_must(<<seq(<<not_at(<<two(".")>>), one({"."})>>), seps, name>>)
variable_tail == sor(<<variable_tail_one, variable_tail_two>>)

function_call_tail_one == if_must(<<seq(<<not_at(<<two(":")>>), one({":"})>>), seps, name, seps, function_args>>)
function_call_tail == sor(<<function_args, function_call_tail_one>>)

variable_head_one == seq(<<bracket_expr, seps, variable_tail>>)
variable_head == sor(<<name, variable_head_one>>)

function_call_head == sor(<<name, bracket_expr>>)

variable == seq(<<variable_head, star(<<star(<<seps, function_call_tail>>), seps, variable_tail>>)>>)
function_call == seq(<<function_call_head, plus(<<until(seq(<<seps, function_call_tail>>), <<seps, variable_tail>>)>>)>>)

op_one(O, N) == seq(<<one({O}), at(<<not_one(N)>>)>>)
op_two(O, P, N) == seq(<<string(<<O, P>>), at(<<not_one(N)>>)>>)

left_assoc(S, O) == seq(<<S, seps, star(<<if_must(<<O, seps, S, seps>>)>>)>>)
right_assoc(S, O, self) == seq(<<S, seps, opt(<<if_must(<<O, seps, ref(self)>>)>>)>>)

unary_operators == sor(<<one({"-"}), one({"#"}), op_one("~", {"="}), key_not>>)

expr_thirteen == seq(<<sor(<<bracket_expr, name>>), star(<<seps, sor(<<function_call_tail, variable_tail>>)>>)>>)
expr_twelve == sor(<<key_nil, key_true, key_false, three_dots, numeral, ref("literal_string"),
                     function_literal, expr_thirteen, table_constructor>>)
expr_eleven == seq(<<expr_twelve, seps, opt(<<one({"^"}), seps, ref("expr_ten"), seps>>)>>)
unary_apply == if_must(<<unary_operators, seps, ref("expr_ten"), seps>>)
expr_ten == sor(<<unary_apply, expr_eleven>>)
operators_nine == sor(<<two("/"), one({"/"}), one({"*"}), one({"%"})>>)
expr_nine == left_assoc(ref("expr_ten"), operators_nine)
operators_eight == sor(<<one({"+"}), one({"-"})>>)
expr_eight == left_assoc(expr_nine, operators_eight)
expr_seven == right_assoc(expr_eight, op_two(".", ".", {"."}), "expr_seven")
operators_six == sor(<<two("<"), two(">")>>)
expr_six == left_assoc(ref("expr_seven"), operators_six)
expr_five == left_assoc(expr_six, one({"&"}))
expr_four == left_assoc(expr_five, op_one("~", {"="}))
expr_three == left_assoc(expr_four, one({"|"}))
operator_notequal == string(<<"!", "=">>)
operators_two(WITH_PICO8) ==
    sor(<<two("="), string(<<"<", "=">>), string(<<">", "=">>),
          op_one("<", {"<"}), op_one(">", {">"})>>
        \o (IF WITH_PICO8 THEN <<ref("operator_notequal")>> ELSE <<>>)
        \o <<string(<<"~", "=">>)>>)
expr_two == left_assoc(expr_three, ref("operators_two"))
expr_one == left_assoc(expr_two, key_and)
expression == left_assoc(expr_one, key_or)

do_statement == if_must(<<key_do, statement_list(key_end)>>)
while_statement == if_must(<<key_while, seps, ref("expression"), seps, key_do, statement_list(key_end)>>)
repeat_statement == if_must(<<key_repeat, statement_list(key_until), seps, ref("expression")>>)

at_elseif_else_end == sor(<<at(<<key_elseif>>), at(<<key_else>>), at(<<key_end>>)>>)
elseif_statement == if_must(<<key_elseif, seps, ref("expression"), seps, key_then, statement_list(at_elseif_else_end)>>)
else_statement == if_must(<<key_else, statement_list(key_end)>>)
if_statement == if_must(<<key_if, seps, ref("expression"), seps, key_then, statement_list(at_elseif_else_end), seps,
                          until(sor(<<else_statement, key_end>>), <<elseif_statement, seps>>)>>)
short_if_statement == seq(<<key_if, seps, bracket_expr, seps, not_at(<<key_then>>),
                            until(at(<<sor(<<eolf, key_end>>)>>), <<>>)>>)

for_statement_one == seq(<<name, seps, one({"="}), seps, ref("expression"), seps, one({","}), seps, ref("expression"),
                           pad_opt(if_must(<<one({","}), seps, ref("expression")>>), sep),
                           key_do, statement_list(key_end)>>)
for_statement_two == seq(<<name_list_must, seps, key_in, seps, expr_list_must, seps, key_do, statement_list(key_end)>>)
for_statement == if_must(<<key_for, seps, sor(<<for_statement_one, for_statement_two>>)>>)

operators_reassign == sor(<<string(<<"+", "=">>), string(<<"-", "=">>), string(<<"*", "=">>),
                            string(<<"/", "=">>), string(<<"%", "=">>)>>)
reassignment == seq(<<ref("variable"), seps, ref("operators_reassign"), seps, expr_list_must>>)
assignment_variable_list == list_must(ref("variable"), one({","}), sep)
assignments_one == if_must(<<one({"="}), seps, expr_list_must>>)
assignments == seq(<<assignment_variable_list, seps, assignments_one>>)
function_name == seq(<<list(name, one({"."}), sep), seps, opt(<<if_must(<<one({":"}), seps, name, seps>>)>>)>>)
function_definition == if_must(<<key_function, seps, function_name, function_body>>)

local_function == if_must(<<key_function, seps, name, seps, function_body>>)
local_variables == if_must(<<name_list_must, seps, opt(<<assignments_one>>)>>)
local_statement == if_must(<<key_local, seps, sor(<<local_function, local_variables>>)>>)

semicolon == one({";"})
statement(WITH_PICO8) ==
    sor(<<semicolon, assignments>>
        \o (IF WITH_PICO8 THEN <<ref("reassignment")>> ELSE <<>>)
        \o <<function_call, label_statement, key_break, goto_statement, do_statement,
             while_statement, repeat_statement, if_statement, for_statement,
             function_definition, local_statement>>)

interpreter == seq(<<one({"#"}), until(eolf, <<>>)>>)
grammar == must(<<opt(<<interpreter>>), statement_list(eof)>>)

\* The rule a ref names.  WITH_PICO8 is the preprocessor symbol of
\* lua53-parse.h: code-fixer.cpp defines it, the standard grammar does not.
Rule(n, WITH_PICO8) ==
    CASE n = "expression" -> expression
      [] n = "statement" -> statement(WITH_PICO8)
      [] n = "expr_ten" -> expr_ten
      [] n = "expr_seven" -> expr_seven
      [] n = "operators_two" -> operators_two(WITH_PICO8)
      [] n = "operator_notequal" -> operator_notequal
      [] n = "reassignment" -> reassignment
      [] n = "variable" -> variable
      [] n = "operators_reassign" -> operators_reassign
      [] n = "literal_string" -> literal_string
      [] n = "comment" -> comment
      [] n = "short_if_statement" -> short_if_statement

\* ------------------------------------------------------------------------
\* The PEGTL matching engine, as a machine with an explicit stack of the
\* rules being matched.  A machine state m has
\*   mode  "call": rule m.e is to be matched at offset m.p in apply mode m.A;
\*         "ret":  a rule has returned m.ok, and if it matched m.p is the
\*                 offset after the match;
\*         "done": the top rule has returned m.ok, or a must<> rule failed
\*                 (m.err: parse_error is thrown);
\*   stk   the rules entered and not yet left, innermost last;
\*   ev    the actions applied so far, in the order they ran.  An action
\*         runs as soon as its rule matches, so ev keeps the actions of
\*         rules matched on a path that is abandoned afterwards;
\*   cm    the matches of the rules in Tracked that belong to the parse so
\*         far: those of a rule that fails, and those made under at<> and
\*         not_at<>, are dropped.
\* The apply mode is FALSE under at<>, not_at<> and disable<>.
\* ------------------------------------------------------------------------

MaxOf(S) == CHOOSE x \in S : \A y \in S : y <= x

\* in.line() and in.byte_in_line() of an input positioned at offset p.
LineOf(text, p) == 1 + Cardinality({i \in 1..p : text[i] = "\n"})
ByteInLine(text, p) ==
    LET nl == {i \in 1..p : text[i] = "\n"} IN IF nl = {} THEN p ELSE p - MaxOf(nl)

\* The rules analyze_action is specialised for.
ActionRules == {"short_if_statement", "reassignment", "operator_notequal"}

\* The rules whose matches the properties look at.
Tracked == {"operator_notequal", "reassignment", "variable", "operators_reassign",
            "literal_string", "comment"}

StartsWith(text, p, s) ==
    /\ p + Len(s) <= Len(text)
    /\ \A i \in 1..Len(s) : text[p + i] = s[i]

\* The number of '=' from offset p on.
RawLevel(text, p) ==
    LET stop == {q \in p..Len(text) : q = Len(text) \/ text[q + 1] # "="} IN
    (CHOOSE q \in stop : \A q2 \in stop : q <= q2) - p

\* The offsets after a "]", k times "=", "]" that starts at or after q.
RawClose(text, q, k) ==
    {c \in (q + k + 2)..Len(text) :
        /\ text[c - k - 1] = "]"
        /\ \A i \in 1..k : text[c - k - 1 + i] = "="
        /\ text[c] = "]"}

\* A rule that consumes input without sub-rules: [ok, err, pos].
Terminal(e) == e.t \in {"any", "one", "not_one", "string", "eof", "eolf", "raw_string"}

MatchTerminal(e, text, p) ==
    CASE e.t = "any" -> [ok |-> p < Len(text), err |-> FALSE, pos |-> p + 1]
      [] e.t = "one" ->
           [ok |-> p < Len(text) /\ text[p + 1] \in e.cs, err |-> FALSE, pos |-> p + 1]
      [] e.t = "not_one" ->
           [ok |-> p < Len(text) /\ text[p + 1] \notin e.cs, err |-> FALSE, pos |-> p + 1]
      [] e.t = "string" ->
           [ok |-> StartsWith(text, p, e.s), err |-> FALSE, pos |-> p + Len(e.s)]
      [] e.t = "eof" -> [ok |-> p >= Len(text), err |-> FALSE, pos |-> p]
      [] e.t = "eolf" ->
           IF p >= Len(text) THEN [ok |-> TRUE, err |-> FALSE, pos |-> p]
           ELSE IF text[p + 1] = "\n" THEN [ok |-> TRUE, err |-> FALSE, pos |-> p + 1]
           ELSE [ok |-> StartsWith(text, p, <<"\r", "\n">>), err |-> FALSE, pos |-> p + 2]
      [] e.t = "raw_string" ->
           \* pegtl::raw_string< '[', '=', ']' >: once the opening bracket
           \* has matched, the closing one must follow.
           IF ~(p < Len(text) /\ text[p + 1] = "[") THEN [ok |-> FALSE, err |-> FALSE, pos |-> p]
           ELSE LET k == RawLevel(text, p + 1) IN
                IF ~(p + 1 + k < Len(text) /\ text[p + k + 2] = "[")
                THEN [ok |-> FALSE, err |-> FALSE, pos |-> p]
                ELSE LET cs == RawClose(text, p + k + 2, k) IN
                     IF cs = {} THEN [ok |-> FALSE, err |-> TRUE, pos |-> p]
                     ELSE [ok |-> TRUE, err |-> FALSE,
                           pos |-> CHOOSE c \in cs : \A c2 \in cs : c <= c2]

\* The first sub-rule matched when rule e is entered.
FirstRule(e, WITH_PICO8) ==
    CASE e.t \in {"seq", "must", "sor"} -> e.rs[1]
      [] e.t = "until" -> e.c
      [] e.t = "ref" -> Rule(e.n, WITH_PICO8)
      [] OTHER -> e.r

Pop(stk) == SubSeq(stk, 1, Len(stk) - 1)
SetTop(stk, f) == [stk EXCEPT ![Len(stk)] = f]
Cut(cm, n) == IF Len(cm) = n THEN cm ELSE SubSeq(cm, 1, n)

\* Enter rule m.e.
StepCall(m, in) ==
    IF Terminal(m.e)
    THEN LET r == MatchTerminal(m.e, in.text, m.p) IN
         IF r.err THEN [m EXCEPT !.mode = "done", !.ok = FALSE, !.err = TRUE]
         ELSE [m EXCEPT !.mode = "ret", !.ok = r.ok, !.p = r.pos]
    ELSE [m EXCEPT !.stk = Append(m.stk, [e |-> m.e, i |-> 1, p |-> m.p, A |-> m.A,
                                          c |-> Len(m.cm)]),
                   !.e = FirstRule(m.e, in.pico8),
                   !.A = m.A /\ m.e.t \notin {"at", "not_at", "disable"}]

\* Leave the innermost rule with result ok at offset p, keeping cm.
Leave(m, ok, p) == [m EXCEPT !.stk = Pop(m.stk), !.ok = ok, !.p = p]

\* Leave the innermost rule f as failed: its matches are dropped.
LeaveFailed(m, f) ==
    [m EXCEPT !.stk = Pop(m.stk), !.ok = FALSE, !.p = f.p, !.cm = Cut(m.cm, f.c)]

\* Match sub-rule e of the innermost rule next, at offset p.
Enter(m, f, e, p) ==
    [m EXCEPT !.mode = "call", !.stk = SetTop(m.stk, f), !.e = e, !.p = p, !.A = f.A]

\* A sub-rule of the innermost rule f has returned m.ok.
StepRet(m, in) ==
    LET f == m.stk[Len(m.stk)]
        t == f.e.t
    IN
    CASE t = "seq" ->
           IF ~m.ok THEN LeaveFailed(m, f)
           ELSE IF f.i = Len(f.e.rs) THEN Leave(m, TRUE, m.p)
           ELSE Enter(m, [f EXCEPT !.i = f.i + 1], f.e.rs[f.i + 1], m.p)
      [] t = "must" ->
           IF ~m.ok THEN [m EXCEPT !.mode = "done", !.ok = FALSE, !.err = TRUE]
           ELSE IF f.i = Len(f.e.rs) THEN Leave(m, TRUE, m.p)
           ELSE Enter(m, [f EXCEPT !.i = f.i + 1], f.e.rs[f.i + 1], m.p)
      [] t = "sor" ->
           IF m.ok THEN Leave(m, TRUE, m.p)
           ELSE IF f.i = Len(f.e.rs) THEN LeaveFailed(m, f)
           ELSE Enter(m, [f EXCEPT !.i = f.i + 1], f.e.rs[f.i + 1], f.p)
      [] t = "star" ->
           IF m.ok THEN Enter(m, [f EXCEPT !.p = m.p], f.e.r, m.p)
           ELSE Leave(m, TRUE, f.p)
      [] t = "opt" -> Leave(m, TRUE, IF m.ok THEN m.p ELSE f.p)
      [] t = "rep_opt" ->
           IF ~m.ok THEN Leave(m, TRUE, f.p)
           ELSE IF f.i = f.e.n THEN Leave(m, TRUE, m.p)
           ELSE Enter(m, [f EXCEPT !.i = f.i + 1, !.p = m.p], f.e.r, m.p)
      [] t = "at" -> [LeaveFailed(m, f) EXCEPT !.ok = m.ok]
      [] t = "not_at" -> [LeaveFailed(m, f) EXCEPT !.ok = ~m.ok]
      [] t = "disable" -> Leave(m, m.ok, m.p)
      [] t = "until" ->
           IF f.i = 1
           THEN \* the condition was tried at f.p
                IF m.ok THEN Leave(m, TRUE, m.p)
                ELSE IF f.p >= Len(in.text) THEN LeaveFailed(m, f)
                ELSE Enter(m, [f EXCEPT !.i = 2], f.e.r, f.p)
           ELSE \* the body was tried at f.p
                IF m.ok THEN Enter(m, [f EXCEPT !.i = 1, !.p = m.p], f.e.c, m.p)
                ELSE LeaveFailed(m, f)
      [] t = "ref" ->
           IF ~m.ok THEN LeaveFailed(m, f)
           ELSE [m EXCEPT
                   !.stk = Pop(m.stk),
                   !.ev = IF f.A /\ f.e.n \in ActionRules
                          THEN Append(m.ev, [rule |-> f.e.n, byte |-> f.p,
                                             line |-> LineOf(in.text, f.p),
                                             byte_in_line |-> ByteInLine(in.text, f.p),
                                             size |-> m.p - f.p])
                          ELSE m.ev,
                   !.cm = IF f.e.n \in Tracked
                          THEN Append(m.cm, [rule |-> f.e.n, pos |-> f.p, end |-> m.p])
                          ELSE m.cm]

Step(m, in) ==
    IF m.mode = "call" THEN StepCall(m, in)
    ELSE IF m.stk = <<>> THEN [m EXCEPT !.mode = "done"]
    ELSE StepRet(m, in)

\* Up to 2^k steps of the machine, stopping when it is done.
RECURSIVE Run(_, _, _)
Run(m, in, k) ==
    IF m.mode = "done" THEN m
    ELSE IF k = 0 THEN Step(m, in)
    ELSE Run(Run(m, in, k - 1), in, k - 1)

MaxSteps == 24

\* pegtl::parse_string< lua53::grammar, analyze_action >( text ).
parse_string(text, WITH_PICO8) ==
    Run([mode |-> "call", e |-> grammar, p |-> 0, A |-> TRUE, ok |-> FALSE, err |-> FALSE,
         stk |-> <<>>, ev |-> <<>>, cm |-> <<>>],
        [text |-> text, pico8 |-> WITH_PICO8], MaxSteps)

\* Rule::match at the start of a text: the machine run on one rule.
match(e, text, WITH_PICO8) ==
    Run([mode |-> "call", e |-> e, p |-> 0, A |-> TRUE, ok |-> FALSE, err |-> FALSE,
         stk |-> <<>>, ev |-> <<>>, cm |-> <<>>],
        [text |-> text, pico8 |-> WITH_PICO8], MaxSteps)

\* ------------------------------------------------------------------------
\* lol::String, as far as code-fixer.cpp uses it
\* ------------------------------------------------------------------------

INDEX_NONE == -1

MinOf(S) == CHOOSE x \in S : \A y \in S : x <= y

\* String::index_of(char const *): the offset of the first occurrence.
index_of(s, token) ==
    LET hits == {p \in 0..(Len(s) - Len(token)) : StartsWith(s, p, token)} IN
    IF hits = {} THEN INDEX_NONE ELSE MinOf(hits)

\* String::sub(start, item_count): item_count bytes from offset start; the
\* rest of the string when item_count is negative or reaches past the end.
sub(s, start, item_count) ==
    IF start >= Len(s) THEN <<>>
    ELSE LET n == IF item_count < 0 \/ item_count >= Len(s) - start
                  THEN Len(s) - start ELSE item_count
         IN SubSeq(s, start + 1, start + n)

\* String::split('\n') from offset start on: the text between newlines.  The
\* loop runs while start is below the size of the array, which counts the
\* NUL that ends the string, so a newline that ends the string, and the
\* empty string, are followed by one empty line.
RECURSIVE split(_, _)
split(s, start) ==
    IF start >= Len(s) + 1 THEN <<>>
    ELSE LET nl == {i \in (start + 1)..Len(s) : s[i] = "\n"} IN
         IF nl = {} THEN <<sub(s, start, -1)>>
         ELSE <<sub(s, start, MinOf(nl) - 1 - start)>> \o split(s, MinOf(nl))

\* ------------------------------------------------------------------------
\* code_fixer (code-fixer.cpp)
\* ------------------------------------------------------------------------

invalid == <<"i", "f", "(", "_", "u", "p", "d", "a", "t", "e", "6", "0", ")", "_", "u", "p", "d", "a", "t", "e", "=", "f", "u", "n", "c", "t", "i", "o", "n", "(", ")">>
valid == <<"\n", "i", "f", "(", "_", "u", "p", "d", "a", "t", "e", "6", "0", ")", "t", "h", "e", "n", " ", "_", "u", "p", "d", "a", "t", "e", "=", "f", "u", "n", "c", "t", "i", "o", "n", "(", ")">>

\* code_fixer::code_fixer(code): m_code, with the boot shim patched.
code_fixer(code) ==
    LET tofix == index_of(code, invalid) IN
    IF tofix # INDEX_NONE
    THEN sub(code, 0, tofix) \o valid \o sub(code, tofix + Len(invalid), -1) \o <<" ", "e", "n", "d">>
    ELSE code

\* A loop that pops the offsets after in.byte() = byte only.
RECURSIVE pop_invalid_after(_, _)
pop_invalid_after(notequals, byte) ==
    IF Len(notequals) > 0 /\ notequals[Len(notequals)] > byte
    THEN pop_invalid_after(SubSeq(notequals, 1, Len(notequals) - 1), byte)
    ELSE notequals

\* A handler that keeps every offset it was given.
pop_invalid_none(notequals, byte) == notequals

\* analyze_action< operator_notequal >::apply, the loop that pops the offsets
\* at or after in.byte() = byte.
RECURSIVE pop_invalid(_, _)
pop_invalid(notequals, byte) ==
    IF Len(notequals) > 0 /\ notequals[Len(notequals)] >= byte
    THEN pop_invalid(SubSeq(notequals, 1, Len(notequals) - 1), byte)
    ELSE notequals

\* analyze_action< operator_notequal >::apply: m_notequals afterwards.
apply_notequal(notequals, in) == Append(pop_invalid(notequals, in.byte), in.byte)

\* analyze_action< reassignment >::apply: ivec3(line, byte_in_line, size).
apply_reassignment(reassignments, in) == Append(reassignments, <<in.line, in.byte_in_line, in.size>>)

\* analyze_action< short_if_statement >::apply: the diagnostic it logs.
apply_short_if(diagnostics, in) == Append(diagnostics, <<in.line, in.byte_in_line, in.size>>)

\* A substitution that hits the byte after the recorded one.
subst_notequal_next(text, offset) == [text EXCEPT ![offset + 2] = "~"]

\* new_code[offset] = '~'
subst_notequal(text, offset) == [text EXCEPT ![offset + 1] = "~"]

\* strchr("+-*/%", c) for a byte c of the line.
reassign_ops == {"+", "-", "*", "/", "%"}

\* The scan of the inner loop of fix(): the bytes >= item[2] of line that are
\* '=' after one of reassign_ops.  The loop stops at the least of them.
scan(line, item) ==
    {byte \in item[2]..(Len(line) - 1) :
        /\ byte >= 1
        /\ line[byte + 1] = "="
        /\ line[byte] \in reassign_ops}

\* The inner loop of fix(): the line rewritten at the first byte of the scan.
fix_item(line, item) ==
    IF scan(line, item) = {} THEN line
    ELSE LET byte == MinOf(scan(line, item)) IN
         sub(line, 0, byte - 1) \o <<"=">>
           \o sub(line, item[2], byte - 1 - item[2]) \o <<line[byte]>> \o <<"(">>
           \o sub(line, byte + 1, item[2] + item[3] - byte - 1) \o <<")">>
           \o sub(line, item[2] + item[3], -1)

\* A loop that does not compare the line of the item with l.
RECURSIVE fix_line_any(_, _, _, _)
fix_line_any(line, reassignments, l, i) ==
    IF i > Len(reassignments) THEN line
    ELSE fix_line_any(fix_item(line, reassignments[i]), reassignments, l, i + 1)

\* The loop over m_reassignments for line l (0-based), from item i on.
RECURSIVE fix_line(_, _, _, _)
fix_line(line, reassignments, l, i) ==
    IF i > Len(reassignments) THEN line
    ELSE fix_line(IF reassignments[i][1] = l + 1 THEN fix_item(line, reassignments[i]) ELSE line,
                  reassignments, l, i + 1)

\* A line appended without the newline.
append_line_bare(new_code, line) == new_code \o line

\* new_code += line + '\n'
append_line(new_code, line) == new_code \o line \o <<"\n">>

\* ------------------------------------------------------------------------
\* The cartridges fix() is run on: a fragment, after up to MaxPre lines of
\* other code, with or without a newline at its end.
\* ------------------------------------------------------------------------

MaxPre == 1
MaxCalls == 2

Fragments ==
    { <<>>,
      <<"a", "=", "1">>,
      <<"f", "(", "a", ")">>,
      <<"x", " ", "=", " ", "\"", "a", " ", "!", "=", " ", "b", "\"">>,
      <<"-", "-", " ", "a", " ", "!", "=", " ", "b">>,
      <<"x", "=", "[", "[", "a", "!", "=", "b", "]", "]">>,
      <<"-", "-", "[", "[", "a", "!", "=", "b", "]", "]">>,
      <<"a", "=", "b", "~", "=", "c">>,
      <<"a", "=", "b", "!", "=", "c">>,
      <<"f", "(", "a", " ", "!", "=", " ", "b", ")">>,
      <<"-", "-", " ", "a", " ", "!", "=", " ", "b", "\n", "x", "=", "a", "!", "=", "b">>,
      <<"i", "f", " ", "a", "!", "=", "b", " ", "t", "h", "e", "n", " ", "c", "=", "1", " ", "e", "n", "d">>,
      <<"x", "=", "a", "!", "=", "b", " ", "o", "r", " ", "c", "!", "=", "d">>,
      <<"a", "+", "=", "1">>,
      <<"c", "*", "=", "2", "\n", "d", "=", "e", "!", "=", "f">>,
      <<"a", "-", "=", "b", "*", "c">>,
      <<"x", "/", "=", "y", "+", "1">>,
      <<"a", " ", "+", "=", " ", "1">>,
      <<"t", ".", "x", "%", "=", "2">>,
      <<"a", "+", "=", "1", "-", "-", "c">>,
      <<"a", "\n", "+", "=", "1">>,
      <<"x", " ", "+", "=", " ", "f", "(", "a", ",", "\n", "b", ")">>,
      <<"a", "+", "=", "1", " ", "b", "-", "=", "2">>,
      <<"a", "=", "b", "", "!", "=", "c">>,
      <<"a", "+", "=", "1", "", "b", "=", "2">>,
      <<"a", "[", "\"", "+", "=", "\"", "]", " ", "+", "=", " ", "1">>,
      <<"f", "(", "f", "u", "n", "c", "t", "i", "o", "n", "(", ")", " ", "a", "+", "=", "1", " ", "e", "n", "d", ")">>,
      <<"a", "+", "=", "b", "!", "=", "c">>,
      <<"x", "=", "\"", "a", "b", "c">>,
      <<"a", "=", "1", " ", "e", "n", "d">>,
      <<"a", "!", "=", "b">>,
      <<"i", "f", " ", "(", "x", ">", "5", ")", " ", "p", "r", "i", "n", "t", "(", "x", ")">>,
      <<"i", "f", "(", "_", "u", "p", "d", "a", "t", "e", "6", "0", ")", "_", "u", "p", "d", "a", "t", "e", "=", "f", "u", "n", "c", "t", "i", "o", "n", "(", ")", "e", "n", "d">>,
      <<"f", "u", "n", "c", "t", "i", "o", "n", " ", "f", "(", ")", " ", "e", "n", "d", " ", "i", "f", "(", "_", "u", "p", "d", "a", "t", "e", "6", "0", ")", "_", "u", "p", "d", "a", "t", "e", "=", "f", "u", "n", "c", "t", "i", "o", "n", "(", ")", "_", "u", "p", "d", "a", "t", "e", "6", "0", "(", ")", "e", "n", "d">>,
      <<"i", "f", "(", "_", "u", "p", "d", "a", "t", "e", "6", "0", ")", "_", "u", "p", "d", "a", "t", "e", "=", "f", "u", "n", "c", "t", "i", "o", "n", "(", ")", "e", "n", "d", "-", "-", "x">>,
      <<"o", "r", "=", "1">>,
      <<"e", "n", "d", "f", "o", "o", "=", "1">>,
      <<"e", "n", "d", "=", "1">> }

ContextLines ==
    { <<"d", "=", "e", "!", "=", "f", "\n">> }

RECURSIVE Prefixes(_)
Prefixes(n) ==
    IF n = 0 THEN {<<>>}
    ELSE Prefixes(n - 1) \cup {p \o c : p \in Prefixes(n - 1), c \in ContextLines}

Inputs == {p \o f \o e : p \in Prefixes(MaxPre), f \in Fragments, e \in {<<>>, <<"\n">>}}

\* ------------------------------------------------------------------------
\* State
\* ------------------------------------------------------------------------

VARIABLES
    code,             \* the text the fixer was constructed with
    m_code,           \* code_fixer::m_code
    m_notequals,      \* code_fixer::m_notequals: byte offsets
    m_reassignments,  \* code_fixer::m_reassignments: <<line, byte_in_line, size>>
    pc,               \* where fix() is
    calls,            \* the calls of fix() so far
    problems,         \* the number of problems pegtl::analyze returned
    diagnostics,      \* the short_if_statement diagnostics logged
    pending,          \* actions of the running parse not yet applied
    parsed,           \* the last parse: [ok, ev, cm]
    new_code,         \* fix()'s local new_code
    lines,            \* fix()'s local lines
    l,                \* fix()'s loop index l
    k,                \* the position of the loop over m_notequals
    out               \* the text fix() returned

vars == <<code, m_code, m_notequals, m_reassignments, pc, calls, problems, diagnostics, pending,
          parsed, new_code, lines, l, k, out>>

Init ==
    /\ code \in Inputs
    /\ m_code = code_fixer(code)
    /\ m_notequals = <<>>
    /\ m_reassignments = <<>>
    /\ pc = "constructed"
    /\ calls = 0
    /\ problems = 0
    /\ diagnostics = <<>>
    /\ pending = <<>>
    /\ parsed = [ok |-> FALSE, ev |-> <<>>, cm |-> <<>>]
    /\ new_code = <<>>
    /\ lines = <<>>
    /\ l = 0
    /\ k = 0
    /\ out = <<>>

\* A call of fix() that leaves the lists as the call before left them.
Fix_keeping ==
    /\ pc \in {"constructed", "done", "failed"}
    /\ calls < MaxCalls
    /\ calls' = calls + 1
    /\ pc' = "check_grammar"
    /\ UNCHANGED <<code, m_code, m_notequals, m_reassignments, problems, diagnostics, pending, parsed,
                   new_code, lines, l, k, out>>

\* fix() is called: both lists are emptied.
Fix ==
    /\ pc \in {"constructed", "done", "failed"}
    /\ calls < MaxCalls
    /\ calls' = calls + 1
    /\ m_notequals' = <<>>
    /\ m_reassignments' = <<>>
    /\ pc' = "check_grammar"
    /\ UNCHANGED <<code, m_code, problems, diagnostics, pending, parsed, new_code, lines, l, k, out>>

\* pegtl::analyze< lua53::grammar >() returns the number of problems it
\* found in the grammar.  No rule of lua53::grammar loops without consuming
\* input and none is left-recursive, so it finds none and returns 0 at every
\* call; fix() does not look at the result.
CheckGrammar ==
    /\ pc = "check_grammar"
    /\ problems' = 0
    /\ pc' = "check_code"
    /\ UNCHANGED <<code, m_code, m_notequals, m_reassignments, calls, diagnostics, pending, parsed,
                   new_code, lines, l, k, out>>

\* pegtl::parse_string starts: the actions it will apply, in order.
Parse ==
    /\ pc = "check_code"
    /\ LET r == parse_string(m_code, TRUE) IN
         /\ pending' = r.ev
         /\ parsed' = [ok |-> r.ok, ev |-> r.ev, cm |-> r.cm]
    /\ pc' = "parsing"
    /\ UNCHANGED <<code, m_code, m_notequals, m_reassignments, calls, problems, diagnostics, new_code, lines, l, k, out>>

\* The parser matched a rule that analyze_action is specialised for: its
\* apply runs.
AnalyzeAction ==
    /\ pc = "parsing"
    /\ pending # <<>>
    /\ LET in == Head(pending) IN
         /\ m_notequals' = IF in.rule = "operator_notequal"
                           THEN apply_notequal(m_notequals, in) ELSE m_notequals
         /\ m_reassignments' = IF in.rule = "reassignment"
                               THEN apply_reassignment(m_reassignments, in) ELSE m_reassignments
         /\ diagnostics' = IF in.rule = "short_if_statement"
                           THEN apply_short_if(diagnostics, in) ELSE diagnostics
    /\ pending' = Tail(pending)
    /\ UNCHANGED <<code, m_code, pc, calls, problems, parsed, new_code, lines, l, k, out>>

\* A parse whose failure does not leave fix().
ParseEnd_unchecked ==
    /\ pc = "parsing"
    /\ pending = <<>>
    /\ pc' = "fix_notequals"
    /\ new_code' = m_code
    /\ k' = 1
    /\ UNCHANGED <<code, m_code, m_notequals, m_reassignments, calls, problems, diagnostics, pending, parsed, lines, l, out>>

\* pegtl::parse_string returns, or throws parse_error out of fix().
ParseEnd ==
    /\ pc = "parsing"
    /\ pending = <<>>
    /\ IF parsed.ok
       THEN /\ pc' = "fix_notequals"
            /\ new_code' = m_code
            /\ k' = 1
       ELSE /\ pc' = "failed"
            /\ UNCHANGED <<new_code, k>>
    /\ UNCHANGED <<code, m_code, m_notequals, m_reassignments, calls, problems, diagnostics, pending, parsed, lines, l, out>>

\* One turn of the loop over m_notequals.
FixNotequal ==
    /\ pc = "fix_notequals"
    /\ k <= Len(m_notequals)
    /\ LET offset == m_notequals[k] IN
         IF offset < Len(new_code) /\ new_code[offset + 1] = "!"
         THEN /\ new_code' = subst_notequal(new_code, offset)
              /\ k' = k + 1
              /\ pc' = pc
         ELSE /\ pc' = "assert_failed"
              /\ UNCHANGED <<new_code, k>>
    /\ UNCHANGED <<code, m_code, m_notequals, m_reassignments, calls, problems, diagnostics, pending, parsed, lines, l, out>>

\* lines = new_code.split('\n'); new_code = "".
Split ==
    /\ pc = "fix_notequals"
    /\ k > Len(m_notequals)
    /\ lines' = split(new_code, 0)
    /\ new_code' = <<>>
    /\ l' = 0
    /\ pc' = "fix_reassignments"
    /\ UNCHANGED <<code, m_code, m_notequals, m_reassignments, calls, problems, diagnostics, pending, parsed, k, out>>

\* A turn of the loop that takes the recorded lines to count from 0.
FixLine_from0 ==
    /\ pc = "fix_reassignments"
    /\ l < Len(lines)
    /\ new_code' = append_line(new_code, fix_line(lines[l + 1], m_reassignments, l - 1, 1))
    /\ l' = l + 1
    /\ UNCHANGED <<code, m_code, m_notequals, m_reassignments, pc, calls, problems, diagnostics, pending, parsed,
                   lines, k, out>>

\* One turn of the loop over lines.
FixLine ==
    /\ pc = "fix_reassignments"
    /\ l < Len(lines)
    /\ new_code' = append_line(new_code, fix_line(lines[l + 1], m_reassignments, l, 1))
    /\ l' = l + 1
    /\ UNCHANGED <<code, m_code, m_notequals, m_reassignments, pc, calls, problems, diagnostics, pending, parsed,
                   lines, k, out>>

\* return new_code.
Return ==
    /\ pc = "fix_reassignments"
    /\ l = Len(lines)
    /\ out' = new_code
    /\ pc' = "done"
    /\ UNCHANGED <<code, m_code, m_notequals, m_reassignments, calls, problems, diagnostics, pending, parsed,
                   new_code, lines, l, k>>

Next ==
    \/ Fix
    \/ CheckGrammar
    \/ Parse
    \/ AnalyzeAction
    \/ ParseEnd
    \/ FixNotequal
    \/ Split
    \/ FixLine
    \/ Return

Spec == Init /\ [][Next]_vars

\* ------------------------------------------------------------------------
\* What the accepted parse of m_code is made of
\* ------------------------------------------------------------------------

\* The matches of a rule that are part of the parse, in the order they ended.
Committed(rule) == SelectSeq(parsed.cm, LAMBDA c : c.rule = rule)

\* The offsets of the != operators of the parse.
NotequalOffsets == {Committed("operator_notequal")[i].pos : i \in DOMAIN Committed("operator_notequal")}

\* Byte p of m_code (0-based) lies in a string literal or in a comment.
InLiteral(p) ==
    \E i \in DOMAIN parsed.cm :
        /\ parsed.cm[i].rule \in {"literal_string", "comment"}
        /\ parsed.cm[i].pos <= p
        /\ p < parsed.cm[i].end

\* The source holds the boot shim.
HasShim == index_of(code, invalid) # INDEX_NONE

\* The lines (1-based) that an entry of m_reassignments names.
RecordedLines == {m_reassignments[i][1] : i \in DOMAIN m_reassignments}

\* A text ends its last line with a newline (or has no line at all).
EndsLine(s) == s = <<>> \/ s[Len(s)] = "\n"

\* A text followed by one newline.
WithLineEnd(s) == s \o <<"\n">>

\* The input holds nothing of the dialect: no != operator, no compound
\* assignment and no boot shim.
PlainLua ==
    /\ NotequalOffsets = {}
    /\ Committed("reassignment") = <<>>
    /\ ~HasShim

\* ------------------------------------------------------------------------
\* C1
\* ------------------------------------------------------------------------

\* C1, as claimed: for every accepted input with no != operator, no compound
\* assignment and no boot shim, fix() returns the input byte for byte,
\* whether or not the input ends with a newline.
C1_Identity == (pc = "done" /\ PlainLua) => out = code

\* C1, amended: for every such input fix() returns the input followed by one
\* newline, whether or not the input ends with a newline.
C1_IdentityUpToLineEnd == (pc = "done" /\ PlainLua) => out = WithLineEnd(code)

\* fix() has returned for a plain input of one line that ends with a newline.
C1_Witness ==
    /\ pc = "done"
    /\ PlainLua
    /\ code # <<>>
    /\ EndsLine(code)
    /\ out = code \o <<"\n">>

\* ------------------------------------------------------------------------
\* C2
\* ------------------------------------------------------------------------

\* The output has ~= where the operator at offset p was.
Lowered(p) == p + 2 <= Len(out) /\ out[p + 1] = "~" /\ out[p + 2] = "="

\* C2, as claimed: for every accepted input the output has ~= at the bytes
\* of every != operator of the parse, and when the input has no compound
\* assignment the output is as long as the patched input and differs from it
\* at those bytes only.
C2_NotequalInPlace ==
    pc = "done" =>
        /\ \A p \in NotequalOffsets : Lowered(p)
        /\ Committed("reassignment") = <<>> =>
              /\ Len(out) = Len(m_code)
              /\ \A i \in 1..Len(m_code) : out[i] # m_code[i] => (i - 1) \in NotequalOffsets

\* C2, amended: the output has ~= at the bytes of every != operator of the
\* parse that has no reassignment recorded on its line or on an earlier
\* line; when no reassignment is recorded at all, the output is as long as
\* the patched input followed by one newline and differs from it at the
\* bytes of those operators only.
C2_NotequalInPlaceOfUnshifted ==
    pc = "done" =>
        /\ \A p \in NotequalOffsets :
              (\A n \in RecordedLines : n > LineOf(m_code, p)) => Lowered(p)
        /\ m_reassignments = <<>> =>
              /\ Len(out) = Len(WithLineEnd(m_code))
              /\ \A i \in 1..Len(out) :
                    out[i] # WithLineEnd(m_code)[i] => (i - 1) \in NotequalOffsets

\* fix() has returned a text with a lowered != that follows a line without
\* reassignment, in an input that also holds a compound assignment.
C2_Witness ==
    /\ pc = "done"
    /\ m_reassignments # <<>>
    /\ \E p \in NotequalOffsets :
          /\ \A n \in RecordedLines : n > LineOf(m_code, p)
          /\ m_code[p + 1] = "!"
          /\ Lowered(p)

\* ------------------------------------------------------------------------
\* C3
\* ------------------------------------------------------------------------

\* The returned text holds the literal c (a string or a comment of the
\* parse): its bytes, one after the other, at the offset they have in the
\* patched input, or further on when a reassignment was recorded for the
\* line of the literal or for an earlier line; and a comment that ends the
\* patched input ends its line in the returned text.
LiteralKept(c) ==
    LET text == SubSeq(m_code, c.pos + 1, c.end)
        shifts == IF \E n \in RecordedLines : n <= LineOf(m_code, c.pos)
                  THEN 0..Len(out) ELSE {0}
    IN \E d \in shifts :
          /\ c.end + d <= Len(out)
          /\ SubSeq(out, c.pos + d + 1, c.end + d) = text
          /\ (c.rule = "comment" /\ c.end = Len(m_code) /\ m_code[c.end] # "\n")
                => (c.end + d < Len(out) /\ out[c.end + d + 1] = "\n")

\* C3, as claimed: for every accepted input no offset in m_notequals lies in
\* a string literal or in a comment, at any moment; the substitution of the
\* recorded offsets changes no byte of a literal; and the returned text
\* holds every string literal and every comment of the input, byte for byte.
C3_LiteralsKept ==
    parsed.ok =>
        /\ \A i \in DOMAIN m_notequals : ~InLiteral(m_notequals[i])
        /\ pc = "fix_notequals" =>
              \A p \in 0..(Len(m_code) - 1) : InLiteral(p) => new_code[p + 1] = m_code[p + 1]
        /\ pc = "done" =>
              \A i \in DOMAIN parsed.cm :
                 parsed.cm[i].rule \in {"literal_string", "comment"} => LiteralKept(parsed.cm[i])

\* ------------------------------------------------------------------------
\* C4
\* ------------------------------------------------------------------------

\* The end of the statement a match r stands for: the match without the
\* white space and the comments the grammar lets it take at its end.
RECURSIVE StatementEnd(_, _)
StatementEnd(r, e) ==
    LET cs == {i \in DOMAIN parsed.cm :
                  /\ parsed.cm[i].rule = "comment"
                  /\ parsed.cm[i].end = e
                  /\ parsed.cm[i].pos > r.pos}
    IN IF e <= r.pos THEN e
       ELSE IF cs # {} THEN StatementEnd(r, parsed.cm[CHOOSE i \in cs : TRUE].pos)
       ELSE IF m_code[e] \in spaceChars THEN StatementEnd(r, e - 1)
       ELSE e

\* The lines a statement is on.
FirstLine(r) == LineOf(m_code, r.pos)
LastLine(r) == LineOf(m_code, MaxOf({r.pos, StatementEnd(r, r.end) - 1}))

\* The offset of the compound operator of a reassignment.
OperatorOf(r) ==
    MinOf({parsed.cm[i].pos : i \in {j \in DOMAIN parsed.cm :
                                        /\ parsed.cm[j].rule = "operators_reassign"
                                        /\ parsed.cm[j].pos >= r.pos}})

\* line[from, to), 0-based.
Slice(line, from, to) == SubSeq(line, from + 1, to)

\* `lhs=lhs op(rhs)` put in the place of the statement r of a line, the
\* statement ending at offset e of m_code.
LoweredLine(line, r, e) ==
    LET c == ByteInLine(m_code, r.pos)
        o == c + (OperatorOf(r) - r.pos)
        z == c + (e - r.pos)
        lhs == Slice(line, c, o)
    IN Slice(line, 0, c) \o lhs \o <<"=">> \o lhs \o <<line[o + 1]>> \o <<"(">>
         \o Slice(line, o + 2, z) \o <<")">> \o Slice(line, z, Len(line))

\* The offsets a lowered statement may end at: the end of the statement, or
\* after white space that follows it on its line.
EndsOf(r) ==
    {e \in StatementEnd(r, r.end)..r.end :
        \A q \in (StatementEnd(r, r.end) + 1)..e : m_code[q] \in spaceChars \ {"\n"}}

\* C4, as claimed: every accepted compound assignment that is on one line,
\* and is the only one on that line, is `lhs=lhs op(rhs)` in the output, the
\* rest of its line as it was.
C4_Lowered ==
    pc = "done" =>
        LET rs == Committed("reassignment")
            olines == split(out, 0)
        IN \A i \in DOMAIN rs :
              (/\ FirstLine(rs[i]) = LastLine(rs[i])
               /\ \A j \in DOMAIN rs :
                     j # i => (LastLine(rs[j]) < FirstLine(rs[i]) \/ FirstLine(rs[j]) > FirstLine(rs[i])))
              => /\ FirstLine(rs[i]) <= Len(olines)
                 /\ \E e \in EndsOf(rs[i]) :
                       olines[FirstLine(rs[i])] = LoweredLine(lines[FirstLine(rs[i])], rs[i], e)

\* ------------------------------------------------------------------------
\* C5
\* ------------------------------------------------------------------------

\* C5, as claimed: for every accepted input the output has as many lines as
\* the patched input, and every line that no reassignment was recorded for
\* is the line of the patched input, byte for byte.
C5_LinesCopied ==
    pc = "done" =>
        LET olines == split(out, 0)
            ilines == split(m_code, 0)
        IN /\ Len(olines) = Len(ilines)
           /\ \A n \in DOMAIN ilines : n \notin RecordedLines => olines[n] = ilines[n]

\* The line with ~ in the place of the ! of every != operator of the parse:
\* from is the offset of the line in m_code.
Substituted(line, from) ==
    [i \in DOMAIN line |-> IF (from + i - 1) \in NotequalOffsets THEN "~" ELSE line[i]]

\* The offset in a text of its line n (1-based).
RECURSIVE LineStart(_, _)
LineStart(text, n) ==
    IF n = 1 THEN 0
    ELSE MinOf({p \in 1..Len(text) : text[p] = "\n" /\ p > LineStart(text, n - 1)})

\* C5, amended: for every accepted input the output has the lines of the
\* patched input and one empty line after them, lines taken as split('\n')
\* gives them, and every line that no reassignment was recorded for is the
\* line of the patched input with `~=` in the place of each `!=` operator
\* of the parse.
C5_LinesCopiedAfterSubstitution ==
    pc = "done" =>
        LET olines == split(out, 0)
            ilines == split(m_code, 0)
        IN /\ Len(olines) = Len(ilines) + 1
           /\ olines[Len(olines)] = <<>>
           /\ \A n \in DOMAIN ilines :
                 n \notin RecordedLines => olines[n] = Substituted(ilines[n], LineStart(m_code, n))

\* fix() has returned a text of several lines, one lowered and another, with
\* a != operator, that no reassignment was recorded for.
C5_Witness ==
    /\ pc = "done"
    /\ RecordedLines # {}
    /\ \E p \in NotequalOffsets : LineOf(m_code, p) \notin RecordedLines
    /\ \E n \in RecordedLines : n <= Len(split(out, 0)) /\ split(out, 0)[n] # split(m_code, 0)[n]

\* ------------------------------------------------------------------------
\* C6
\* ------------------------------------------------------------------------

\* C6, as claimed: whenever fix() returns, the text it returns is accepted by
\* the grammar without the dialect extensions, which knows no != and no
\* compound assignment.
C6_StandardOutput == pc = "done" => parse_string(out, FALSE).ok

\* ------------------------------------------------------------------------
\* C7
\* ------------------------------------------------------------------------

\* C7: when the grammar does not accept the patched source, fix() never gets
\* to the rewrite pass: no byte is substituted, no line is split off or
\* rewritten, no text is returned, and m_code is what the constructor made.
C7_FailsBeforeRewrite ==
    ~parsed.ok =>
        /\ pc \notin {"fix_notequals", "fix_reassignments", "done", "assert_failed"}
        /\ new_code = <<>>
        /\ lines = <<>>
        /\ out = <<>>
        /\ m_code = code_fixer(code)

\* fix() has failed on a source the grammar does not accept, after actions
\* of the parse had run.
C7_Witness ==
    /\ pc = "failed"
    /\ ~parsed.ok
    /\ parsed.ev # <<>>
    /\ out = <<>>

\* ------------------------------------------------------------------------
\* C8
\* ------------------------------------------------------------------------

\* if (x>5) print(x)
short_if_example == <<"i", "f", " ", "(", "x", ">", "5", ")", " ", "p", "r", "i", "n", "t", "(", "x", ")">>

\* C8, as claimed: for an input with the single-line `if (x>5) print(x)`,
\* fix() does not fail, logs the short_if_statement diagnostic, and returns a
\* text that still holds that statement.
C8_ShortIfReported ==
    (index_of(code, short_if_example) # INDEX_NONE /\ pc \in {"done", "failed"}) =>
        /\ pc = "done"
        /\ diagnostics # <<>>
        /\ index_of(out, short_if_example) # INDEX_NONE

\* ------------------------------------------------------------------------
\* C9
\* ------------------------------------------------------------------------

\* The source before the boot shim, and after it.
BeforeShim == sub(code, 0, index_of(code, invalid))
AfterShim == sub(code, index_of(code, invalid) + Len(invalid), -1)

\* The source is a valid cartridge apart from the shim: what precedes the
\* shim is accepted, and what follows it ends the function the shim opens.
ValidApartFromShim ==
    /\ parse_string(BeforeShim, TRUE).ok
    /\ parse_string(<<"_", "=", "f", "u", "n", "c", "t", "i", "o", "n", "(", ")">> \o AfterShim, TRUE).ok

\* C9, as claimed: for every source that holds the boot shim and is a valid
\* cartridge apart from it, the constructor puts a newline and the shim with
\* `then` in the place of the shim and ` end` at the end of the text, and
\* fix() does not fail on the patched text.
C9_ShimAccepted ==
    (pc \in {"done", "failed"} /\ HasShim /\ ValidApartFromShim) =>
        /\ m_code = BeforeShim \o valid \o AfterShim \o <<" ", "e", "n", "d">>
        /\ pc = "done"

\* ------------------------------------------------------------------------
\* C10
\* ------------------------------------------------------------------------

\* The offsets of the != operators of the parse, in order.
CommittedNotequals ==
    [i \in DOMAIN Committed("operator_notequal") |-> Committed("operator_notequal")[i].pos]

\* The actions of the parse that matched a rule.
Matched(rule) == SelectSeq(parsed.ev, LAMBDA in : in.rule = rule)

\* C10: once the parse has ended with success, and until fix() is called
\* again, m_notequals is the offsets of the != operators of the parse, each
\* once and in order, whatever matches the parser gave up on the way.
C10_OnlyCommitted ==
    (/\ parsed.ok
     /\ \/ pc = "parsing" /\ pending = <<>>
        \/ pc \in {"fix_notequals", "fix_reassignments", "done"})
    => /\ m_notequals = CommittedNotequals
       /\ Cardinality({m_notequals[i] : i \in DOMAIN m_notequals}) = Len(m_notequals)

\* The parse has ended with success after it matched more != than it kept.
C10_Witness ==
    /\ pc = "fix_notequals"
    /\ parsed.ok
    /\ m_notequals # <<>>
    /\ Len(Matched("operator_notequal")) > Len(CommittedNotequals)

\* ------------------------------------------------------------------------
\* C11
\* ------------------------------------------------------------------------

\* The number of actions of the running parse that have been applied.
Applied == Len(parsed.ev) - Len(pending)

\* C11: m_notequals is strictly increasing at every moment; right after an
\* operator_notequal action its last element is the offset that action
\* matched; and in the rewrite pass every recorded offset that is still to
\* be substituted is the offset of a `!` of new_code, so that the ASSERT of
\* the loop never fails.
C11_IncreasingOffsets ==
    /\ \A i, j \in DOMAIN m_notequals : i < j => m_notequals[i] < m_notequals[j]
    /\ (pc = "parsing" /\ Applied > 0 /\ parsed.ev[Applied].rule = "operator_notequal") =>
          /\ m_notequals # <<>>
          /\ m_notequals[Len(m_notequals)] = parsed.ev[Applied].byte
    /\ pc = "fix_notequals" =>
          \A i \in DOMAIN m_notequals :
             /\ m_notequals[i] < Len(new_code)
             /\ new_code[m_notequals[i] + 1] = IF i < k THEN "~" ELSE "!"
    /\ pc # "assert_failed"

\* The loop over m_notequals has substituted two offsets, recorded by a parse
\* in which an action popped an offset recorded before.
C11_Witness ==
    /\ pc = "fix_notequals"
    /\ k > Len(m_notequals)
    /\ Len(m_notequals) >= 2
    /\ Len(Matched("operator_notequal")) > Len(m_notequals)

\* ------------------------------------------------------------------------
\* C12
\* ------------------------------------------------------------------------

\* The compound assignments of the parse that start on line n, in order.
ReassignmentsOn(n) == SelectSeq(Committed("reassignment"), LAMBDA r : FirstLine(r) = n)

\* The lines that come of a line by lowering each statement of rs in its
\* place, the last one first.
RECURSIVE AllLowered(_, _)
AllLowered(line, rs) ==
    IF rs = <<>> THEN {line}
    ELSE UNION {AllLowered(LoweredLine(line, rs[Len(rs)], e), SubSeq(rs, 1, Len(rs) - 1)) :
                   e \in EndsOf(rs[Len(rs)])}

\* C12, as claimed: when a line holds two or more compound assignments, one
\* after the other, the output has each of them as its own `lhs=lhs op(rhs)`
\* and the rest of the line as it was.
C12_EachLowered ==
    pc = "done" =>
        LET olines == split(out, 0) IN
        \A n \in DOMAIN lines :
           LET rs == ReassignmentsOn(n) IN
           (/\ Len(rs) >= 2
            /\ \A i \in DOMAIN rs : LastLine(rs[i]) = n
            /\ \A i \in DOMAIN rs : i > 1 => rs[i - 1].end <= rs[i].pos)
           => /\ n <= Len(olines)
              /\ olines[n] \in AllLowered(lines[n], rs)

\* ------------------------------------------------------------------------
\* C13
\* ------------------------------------------------------------------------

\* The line that item i of m_reassignments is applied to: its line after the
\* items before it.
LineBefore(i) ==
    fix_line(lines[m_reassignments[i][1]], SubSeq(m_reassignments, 1, i - 1),
             m_reassignments[i][1] - 1, 1)

\* The compound assignments of the parse that item i of m_reassignments
\* records.
StatementsOf(i) ==
    {r \in {Committed("reassignment")[j] : j \in DOMAIN Committed("reassignment")} :
        /\ FirstLine(r) = m_reassignments[i][1]
        /\ ByteInLine(m_code, r.pos) = m_reassignments[i][2]}

\* C13, as claimed: for every recorded reassignment the scan finds a byte, the
\* operator before that byte lies in the recorded span, and it is the
\* compound operator of the statement recorded.
C13_ScanFindsOperator ==
    pc = "done" =>
        \A i \in DOMAIN m_reassignments :
           LET item == m_reassignments[i]
               found == scan(LineBefore(i), item)
           IN /\ found # {}
              /\ MinOf(found) < item[2] + item[3]
              /\ LineBefore(i) = lines[item[1]] =>
                    \A r \in StatementsOf(i) :
                       LineStart(m_code, item[1]) + MinOf(found) - 1 = OperatorOf(r)

\* ------------------------------------------------------------------------
\* C15
\* ------------------------------------------------------------------------

\* What the reassignment actions of the last parse recorded, in order.
RecordedByParse ==
    [i \in DOMAIN Matched("reassignment") |->
        <<Matched("reassignment")[i].line, Matched("reassignment")[i].byte_in_line,
          Matched("reassignment")[i].size>>]

\* C15: in every call of fix() both lists are empty when the parse starts;
\* the rewrite pass works with what the parse of the same call recorded; and
\* a call that returns after an earlier call returned gives the same text.
C15_CallsAlike ==
    [][/\ pc' = "check_code" => (m_notequals' = <<>> /\ m_reassignments' = <<>>)
       /\ pc' \in {"fix_notequals", "fix_reassignments", "done"} =>
             /\ m_reassignments' = RecordedByParse'
             /\ m_notequals' = CommittedNotequals'
       /\ (pc = "fix_reassignments" /\ pc' = "done" /\ calls > 1) => out' = out]_vars

\* A second call of fix() has returned a text with both kinds of rewrite.
C15_Witness ==
    /\ calls = 2
    /\ pc = "done"
    /\ m_notequals # <<>>
    /\ m_reassignments # <<>>
    /\ out # m_code

\* ------------------------------------------------------------------------
\* C16
\* ------------------------------------------------------------------------

\* The lowering applied to the lines ls from line n (0-based) on.
RECURSIVE LowerLines(_, _, _)
LowerLines(ls, reassignments, n) ==
    IF n >= Len(ls) THEN <<>>
    ELSE append_line(<<>>, fix_line(ls[n + 1], reassignments, n, 1))
           \o LowerLines(ls, reassignments, n + 1)

\* The substitution applied to a text from offset i of notequals on; ok
\* tells that each offset was the offset of a `!`.
RECURSIVE SubstituteAll(_, _, _)
SubstituteAll(text, notequals, i) ==
    IF i > Len(notequals) THEN [ok |-> TRUE, text |-> text]
    ELSE IF notequals[i] < Len(text) /\ text[notequals[i] + 1] = "!"
         THEN SubstituteAll(subst_notequal(text, notequals[i]), notequals, i + 1)
         ELSE [ok |-> FALSE, text |-> text]

\* The two rewrites in the other order: the lowering on m_code, then the
\* substitution on what comes of it.
LoweringFirst == SubstituteAll(LowerLines(split(m_code, 0), m_reassignments, 0), m_notequals, 1)

\* The offset in m_code of the first byte of a recorded reassignment.
StartOf(item) == LineStart(m_code, item[1]) + item[2]

\* C16, as claimed: for every accepted input with both kinds of construct,
\* the lowering applied before the substitution gives the text fix() gives.
C16_Commute ==
    (pc = "done" /\ m_notequals # <<>> /\ m_reassignments # <<>>) =>
        (LoweringFirst.ok /\ LoweringFirst.text = out)

\* C16, amended: the lowering applied before the substitution gives the text
\* fix() gives for every accepted input with both kinds of construct in
\* which every recorded != comes before the first byte of every recorded
\* compound assignment.
C16_CommuteWhenNotequalsFirst ==
    (/\ pc = "done"
     /\ m_notequals # <<>>
     /\ m_reassignments # <<>>
     /\ \A i \in DOMAIN m_notequals : \A j \in DOMAIN m_reassignments :
           m_notequals[i] < StartOf(m_reassignments[j]))
    => (LoweringFirst.ok /\ LoweringFirst.text = out)

\* fix() has returned for an input with a != on a line before the line of a
\* compound assignment, and has rewritten both.
C16_Witness ==
    /\ pc = "done"
    /\ m_notequals # <<>>
    /\ m_reassignments # <<>>
    /\ \A i \in DOMAIN m_notequals : \A j \in DOMAIN m_reassignments :
          m_notequals[i] < StartOf(m_reassignments[j])
    /\ out # WithLineEnd(m_code)
    /\ LoweringFirst.text = out

\* ------------------------------------------------------------------------
\* C17
\* ------------------------------------------------------------------------

\* The keywords of Lua.
Keywords ==
    { <<"a", "n", "d">>,
      <<"b", "r", "e", "a", "k">>,
      <<"d", "o">>,
      <<"e", "l", "s", "e">>,
      <<"e", "l", "s", "e", "i", "f">>,
      <<"e", "n", "d">>,
      <<"f", "a", "l", "s", "e">>,
      <<"f", "o", "r">>,
      <<"f", "u", "n", "c", "t", "i", "o", "n">>,
      <<"g", "o", "t", "o">>,
      <<"i", "f">>,
      <<"i", "n">>,
      <<"l", "o", "c", "a", "l">>,
      <<"n", "i", "l">>,
      <<"n", "o", "t">>,
      <<"o", "r">>,
      <<"r", "e", "p", "e", "a", "t">>,
      <<"r", "e", "t", "u", "r", "n">>,
      <<"t", "h", "e", "n">>,
      <<"t", "r", "u", "e">>,
      <<"u", "n", "t", "i", "l">>,
      <<"w", "h", "i", "l", "e">> }

\* The rule `name` matches the whole of a word.
IsName(w) == match(name, w, TRUE).ok /\ match(name, w, TRUE).p = Len(w)

\* C17, as claimed: `name` matches no keyword, so that fix() fails on a
\* cartridge that assigns to one; and `name` matches a keyword that goes on
\* with identifier characters, so that fix() returns for a cartridge that
\* assigns to such a name.
C17_KeywordsAreNoNames ==
    pc \in {"done", "failed"} =>
        \A w \in Keywords :
           /\ code = w \o <<"=", "1">> => (~IsName(w) /\ pc = "failed")
           /\ code = w \o <<"f", "o", "o", "=", "1">> =>
                 (IsName(w \o <<"f", "o", "o">>) /\ pc = "done")

\* ------------------------------------------------------------------------
\* C18
\* ------------------------------------------------------------------------

\* One record for each compound assignment of the parse, in order.
CommittedReassignments ==
    [i \in DOMAIN Committed("reassignment") |->
        <<FirstLine(Committed("reassignment")[i]),
          ByteInLine(m_code, Committed("reassignment")[i].pos),
          Committed("reassignment")[i].end - Committed("reassignment")[i].pos>>]

\* C18, as claimed: once the parse has ended with success, m_reassignments
\* holds one entry for each compound assignment of the parse and no other
\* entry, however often the parser matched the statement on the way.
C18_OneRecordEach ==
    (parsed.ok /\ pc \in {"fix_notequals", "fix_reassignments", "done"}) =>
        m_reassignments = CommittedReassignments

\* ------------------------------------------------------------------------
\* C19
\* ------------------------------------------------------------------------

\* A comment starts on the line of the statement r, after its end.
CommentFollows(r) ==
    \E i \in DOMAIN Committed("comment") :
        /\ Committed("comment")[i].pos >= StatementEnd(r, r.end)
        /\ LineOf(m_code, Committed("comment")[i].pos) = LastLine(r)

\* C19, as claimed: the span recorded for a compound assignment ends with
\* the last byte of its right-hand side; and a statement on one line that a
\* comment follows on that line has its closing parenthesis before the
\* comment, with nothing but blanks between the right-hand side and it.
C19_SpanEndsWithRhs ==
    pc = "done" =>
        LET rs == Committed("reassignment")
            olines == split(out, 0)
        IN \A i \in DOMAIN rs :
              /\ rs[i].end = StatementEnd(rs[i], rs[i].end)
              /\ (/\ CommentFollows(rs[i])
                  /\ FirstLine(rs[i]) = LastLine(rs[i])
                  /\ Len(ReassignmentsOn(FirstLine(rs[i]))) = 1)
                 => \E e \in EndsOf(rs[i]) :
                       olines[FirstLine(rs[i])] = LoweredLine(lines[FirstLine(rs[i])], rs[i], e)

\* ------------------------------------------------------------------------
\* C20
\* ------------------------------------------------------------------------

\* `lhs=lhs op(rhs)` put in the place of the statement r of a whole text,
\* the statement ending at offset e.
LoweredText(text, r, e) ==
    LET o == OperatorOf(r)
        lhs == Slice(text, r.pos, o)
    IN Slice(text, 0, r.pos) \o lhs \o <<"=">> \o lhs \o <<text[o + 1]>> \o <<"(">>
         \o Slice(text, o + 2, e) \o <<")">> \o Slice(text, e, Len(text))

\* C20, as claimed: a compound assignment that goes over more than one line,
\* the only one of its cartridge, is `lhs=lhs op(rhs)` in the output, one
\* pair of parentheses around the whole right-hand side, and the rest of the
\* text is as it was after the substitution of the != operators.
C20_MultiLineLowered ==
    pc = "done" =>
        LET rs == Committed("reassignment") IN
        (Len(rs) = 1 /\ FirstLine(rs[1]) < LastLine(rs[1])) =>
            \E e \in EndsOf(rs[1]) :
                out = WithLineEnd(LoweredText(Substituted(m_code, 0), rs[1], e))
====
